---- MODULE Spec2Model ----
(***************************************************************************)
(* A model of pyqap (src/pyqap.py): the Entry tree, its construction by    *)
(* find_files / Entry.append / update_sizes, and the selection handler     *)
(* Model.setData.                                                          *)
(*                                                                         *)
(* Python objects are records kept in the store `heap`, addressed by the   *)
(* path of the filesystem object they stand for; a path is a node number,  *)
(* 0 being the start directory.  An Optional value is a sequence of length *)
(* at most one: None is << >> and a value v is << v >>.                    *)
(*                                                                         *)
(* Three specifications share the variables:                               *)
(*   Spec        find_files, one step per directory os.fwalk yields;       *)
(*   SpecAppend  entries built by hand and put together with Entry.append  *)
(*               and update_sizes, as the unit tests do;                   *)
(*   SpecSel     Model.setData on the Tree find_files returned.            *)
(***************************************************************************)
EXTENDS Integers, Sequences, FiniteSets, TLC

\* ---------------------------------------------------------------- bounds
MaxNodes == 4
MaxSize == 2
MaxUpdates == 2

\* ------------------------------------------------------------- Optional
None == << >>
Some(v) == << v >>
Val(o) == o[1]

\* Qt.CheckState values, as setData matches them (src/pyqap.py:222-228)
Unchecked == 0
PartiallyChecked == 1
Checked == 2

CheckStateRole == "CheckStateRole"
EditRole == "EditRole"
Roles == {CheckStateRole, EditRole}

\* The start directory, and the index that names no entry (QModelIndex()).
start == 0
InvalidIndex == -1

VARIABLES
    fs,        \* the filesystem that is scanned (the input of find_files)
    heap,      \* the Entry objects created so far, by path
    entries,   \* Tree.entries / find_files' dict: the set of its keys
    visited,   \* the directories os.fwalk has yielded so far
    pc,        \* where the program is
    appended,  \* the entries appended to their parent so far (built by hand)
    updates,   \* how many times update_sizes was called (built by hand)
    last       \* the last call made and what it answered

vars == << fs, heap, entries, visited, pc, appended, updates, last >>

\* ------------------------------------------------------------ filesystem
\* A filesystem of n objects: object 0 is the start directory, every other
\* object i lies in the directory parent[i] < i.  A file's stat either
\* answers a size or raises FileNotFoundError (ok = FALSE).  Objects are
\* numbered breadth first (parent is non-decreasing); a directory is listed
\* in increasing number, which loses no listing order.
NotFound == [ok |-> FALSE, st_size |-> 0]
Stats == {NotFound} \cup { [ok |-> TRUE, st_size |-> s] : s \in 1..MaxSize }

\* Where the n-1 objects below the start directory lie.
Parents(n) ==
    { q \in [1..(n-1) -> 0..(n-1)] :
        /\ \A i \in 1..(n-1) : q[i] < i
        /\ \A i \in 1..(n-2) : q[i] <= q[i+1] }

\* Which of them are directories: whatever holds an object is one.
Kinds(n, p) ==
    { k \in [0..(n-1) -> BOOLEAN] : k[start] /\ \A i \in 1..(n-1) : k[p[i]] }

\* What stat answers for each file (a directory is never asked).
StatsOf(n, k) ==
    { [ i \in 0..(n-1) |-> IF k[i] THEN NotFound ELSE s[i] ] :
        s \in [ { i \in 0..(n-1) : ~k[i] } -> Stats ] }

FileSystems ==
    UNION { UNION { UNION { { [n |-> n, parent |-> p, isdir |-> k, stat |-> s] :
                              s \in StatsOf(n, k) } :
                            k \in Kinds(n, p) } :
                    p \in Parents(n) } :
            n \in 1..MaxNodes }

\* The members of a finite set of numbers, in increasing order.
RECURSIVE Sorted(_)
Sorted(S) ==
    IF S = {} THEN << >>
    ELSE LET m == CHOOSE x \in S : \A y \in S : x <= y
         IN << m >> \o Sorted(S \ {m})

\* What os.fwalk yields for directory d: its sub-directories and its files.
ListDirs(f, d) == Sorted({ i \in 1..(f.n-1) : f.parent[i] = d /\ f.isdir[i] })
ListFiles(f, d) == Sorted({ i \in 1..(f.n-1) : f.parent[i] = d /\ ~f.isdir[i] })

\* ----------------------------------------------------------------- Entry
Entry(parent_dir, name, size, full_size, children) ==
    [ parent_dir |-> parent_dir, name |-> name, size |-> size,
      full_size |-> full_size, selected |-> Some(FALSE), selected_size |-> 0,
      children |-> children ]

\* h with the object at path p replaced or added.
Put(h, p, e) == [ q \in DOMAIN h \cup {p} |-> IF q = p THEN e ELSE h[q] ]

\* append, were a directory child's size added to self.size like a file's.
append_sized(h, p, c) ==
    LET self == h[p]
        child == h[c]
        kids == Some(Append(Val(self.children), c))
    IN  IF child.children = None
        THEN Put(h, p, [self EXCEPT !.children = kids,
                                    !.size = self.size + child.size,
                                    !.full_size = Some(Val(self.full_size) + child.size)])
        ELSE Put(h, p, [self EXCEPT !.children = kids,
                                    !.size = self.size + child.size,
                                    !.full_size = Some(Val(self.full_size) + Val(child.full_size))])

\* Entry.append: self is the object at p, child the object at c.
append(h, p, c) ==
    LET self == h[p]
        child == h[c]
        kids == Some(Append(Val(self.children), c))
    IN  IF child.children = None
        THEN Put(h, p, [self EXCEPT !.children = kids,
                                    !.size = self.size + child.size,
                                    !.full_size = Some(Val(self.full_size) + child.size)])
        ELSE Put(h, p, [self EXCEPT !.children = kids,
                                    !.full_size = Some(Val(self.full_size) + Val(child.full_size))])

\* update_sizes(entry): the loop over entry.children from position i on.
RECURSIVE update_sizes_from(_, _, _)
update_sizes_from(h, p, i) ==
    IF h[p].children = None \/ i > Len(Val(h[p].children)) THEN h
    ELSE LET c == Val(h[p].children)[i]
         IN  IF h[c].children # None
             THEN LET h1 == update_sizes_from(h, c, 1)
                      h2 == Put(h1, p, [h1[p] EXCEPT
                                !.full_size = Some(Val(h1[p].full_size) + Val(h1[c].full_size))])
                  IN update_sizes_from(h2, p, i + 1)
             ELSE update_sizes_from(h, p, i + 1)

\* update_sizes, were the recursive call of line 345 left out.
RECURSIVE update_sizes_flat_from(_, _, _)
update_sizes_flat_from(h, p, i) ==
    IF h[p].children = None \/ i > Len(Val(h[p].children)) THEN h
    ELSE LET c == Val(h[p].children)[i]
         IN  IF h[c].children # None
             THEN update_sizes_flat_from(
                      Put(h, p, [h[p] EXCEPT
                            !.full_size = Some(Val(h[p].full_size) + Val(h[c].full_size))]),
                      p, i + 1)
             ELSE update_sizes_flat_from(h, p, i + 1)

update_sizes_flat(h, p) == update_sizes_flat_from(h, p, 1)

update_sizes(h, p) == update_sizes_from(h, p, 1)

\* find_files, lines 362-366: the size recorded for a listed file.
file_size(st) == IF st.ok THEN st.st_size ELSE 0

\* find_files, lines 356-359: the loop over dirs, from position i on.
RECURSIVE add_dirs(_, _, _, _)
add_dirs(h, parent_dir, dirs, i) ==
    IF i > Len(dirs) THEN h
    ELSE LET h1 == Put(h, dirs[i], Entry(parent_dir, dirs[i], 0, Some(0), Some(<< >>)))
         IN add_dirs(append(h1, parent_dir, dirs[i]), parent_dir, dirs, i + 1)

\* add_files, were FileNotFoundError to end the loop instead of being caught.
RECURSIVE add_files_abort(_, _, _, _, _)
add_files_abort(h, f, parent_dir, files, i) ==
    IF i > Len(files) \/ ~f.stat[files[i]].ok THEN h
    ELSE LET h1 == Put(h, files[i],
                       Entry(parent_dir, files[i], file_size(f.stat[files[i]]), None, None))
         IN add_files_abort(append(h1, parent_dir, files[i]), f, parent_dir, files, i + 1)

\* find_files, lines 361-369: the loop over files, from position i on.
RECURSIVE add_files(_, _, _, _, _)
add_files(h, f, parent_dir, files, i) ==
    IF i > Len(files) THEN h
    ELSE LET h1 == Put(h, files[i],
                       Entry(parent_dir, files[i], file_size(f.stat[files[i]]), None, None))
         IN add_files(append(h1, parent_dir, files[i]), f, parent_dir, files, i + 1)

\* find_files, lines 353-369: the body of the loop for the directory fwalk yields.
visit(h, f, parent_dir) ==
    add_files(add_dirs(h, parent_dir, ListDirs(f, parent_dir), 1),
              f, parent_dir, ListFiles(f, parent_dir), 1)

\* os.fwalk as the library runs it: top down and depth first.
RECURSIVE fwalk(_, _, _)
RECURSIVE fwalk_dirs(_, _, _, _)
fwalk(h, f, d) == fwalk_dirs(visit(h, f, d), f, ListDirs(f, d), 1)
fwalk_dirs(h, f, dirs, i) ==
    IF i > Len(dirs) THEN h ELSE fwalk_dirs(fwalk(h, f, dirs[i]), f, dirs, i + 1)

\* line 351: entries = { start: Entry(start, basename(start), 0, 0, []) }
first_entries == [ p \in {start} |-> Entry(start, start, 0, Some(0), Some(<< >>)) ]

\* find_files(start) as a whole: the heap of the Tree it returns.
find_files(f) == update_sizes(fwalk(first_entries, f, start), start)

\* ---------------------------------------------------------------- Model
IsDir(h, p) == h[p].children # None
IsFile(h, p) == h[p].children = None

\* match_state, were a click to flip the box instead of setting it.
match_state_toggle(state, selected) ==
    CASE state = Unchecked -> IF selected = Some(FALSE) THEN Some(TRUE) ELSE Some(FALSE)
      [] state = PartiallyChecked -> None
      [] state = Checked -> IF selected = Some(TRUE) THEN Some(FALSE) ELSE Some(TRUE)
      [] OTHER -> selected

\* setData, lines 218-230: the match on state; no case leaves selected alone.
match_state(state, selected) ==
    CASE state = Unchecked -> Some(FALSE)
      [] state = PartiallyChecked -> None
      [] state = Checked -> Some(TRUE)
      [] OTHER -> selected

\* setData, line 211: the index names an entry and the column is the first.
accepted(index, column, role) ==
    role = CheckStateRole /\ index # InvalidIndex /\ column = 0

\* setData_heap, were the new state also written to the children of the entry.
setData_heap_down(h, index, column, value, role) ==
    IF accepted(index, column, role)
    THEN [ q \in DOMAIN h |->
             IF q = index
                \/ (h[index].children # None
                    /\ \E i \in 1..Len(Val(h[index].children)) : Val(h[index].children)[i] = q)
             THEN [h[q] EXCEPT !.selected = match_state(value, h[q].selected)]
             ELSE h[q] ]
    ELSE h

\* setData, lines 210-281: the heap it leaves, what it returns, whether it
\* emits dataChanged.  propagate_change (lines 284-287) is never called.
setData_heap(h, index, column, value, role) ==
    IF accepted(index, column, role)
    THEN Put(h, index, [h[index] EXCEPT !.selected = match_state(value, h[index].selected)])
    ELSE h

setData_result(index, column, value, role) == role = CheckStateRole

setData_emits(index, column, value, role) == accepted(index, column, role)

\* raw_data, lines 152-179, for a valid index.
raw_data(h, index, column, selected) ==
    IF selected
    THEN h[index].selected
    ELSE CASE column = 0 -> Some(h[index].name)
           [] column = 1 -> Some(h[index].size)
           [] column = 2 -> h[index].full_size
           [] column = 3 -> Some(0)

NoCall == [ op |-> "none", index |-> InvalidIndex, column |-> 0, value |-> 0,
            role |-> EditRole, result |-> FALSE, emitted |-> FALSE, again |-> FALSE ]

Call(op, index) == [ NoCall EXCEPT !.op = op, !.index = index ]

\* ------------------------------------------------------------ find_files
Init ==
    /\ fs \in FileSystems
    /\ heap = first_entries
    /\ entries = {start}
    /\ visited = {}
    /\ appended = {}
    /\ updates = 0
    /\ pc = "walk"
    /\ last = NoCall

\* One iteration of the loop of line 353: os.fwalk yields a directory whose
\* entry exists (it was listed by its parent) and that it has not yielded yet.
Walk(d) ==
    /\ pc = "walk"
    /\ d \in entries \ visited
    /\ heap' = visit(heap, fs, d)
    /\ entries' = entries \cup { i \in 1..(fs.n-1) : fs.parent[i] = d /\ fs.isdir[i] }
    /\ visited' = visited \cup {d}
    /\ last' = Call("fwalk", d)
    /\ UNCHANGED << fs, pc, appended, updates >>

\* lines 372-374: the walk is over; update_sizes(entries[start]), return Tree.
Finish ==
    /\ pc = "walk"
    /\ entries = visited
    /\ heap' = update_sizes(heap, start)
    /\ pc' = "built"
    /\ last' = Call("update_sizes", start)
    /\ UNCHANGED << fs, entries, visited, appended, updates >>

Next ==
    \/ \E d \in 0..(MaxNodes-1) : Walk(d)
    \/ Finish

Spec == Init /\ [][Next]_vars

\* ------------------------------------------- Entry.append, update_sizes
\* The entries built by hand, as TestEntry.setUp and TestUpdateSizes.setUp
\* build them, before any of them is appended.
InitAppend ==
    /\ fs \in FileSystems
    /\ heap = [ p \in 0..(fs.n-1) |->
                  IF fs.isdir[p]
                  THEN Entry(IF p = start THEN start ELSE fs.parent[p], p, 0, Some(0), Some(<< >>))
                  ELSE Entry(fs.parent[p], p, file_size(fs.stat[p]), None, None) ]
    /\ entries = {}
    /\ visited = {}
    /\ appended = {}
    /\ updates = 0
    /\ pc = "assemble"
    /\ last = NoCall

\* parent.append(child), each entry appended once, to its directory, in any order.
AppendCall(c) ==
    /\ pc = "assemble"
    /\ c \in (1..(fs.n-1)) \ appended
    /\ heap' = append(heap, fs.parent[c], c)
    /\ appended' = appended \cup {c}
    /\ last' = Call("append", c)
    /\ UNCHANGED << fs, entries, visited, updates, pc >>

\* update_sizes(root_entry), at any moment.
UpdateSizesCall ==
    /\ pc = "assemble"
    /\ updates < MaxUpdates
    /\ heap' = update_sizes(heap, start)
    /\ updates' = updates + 1
    /\ last' = Call("update_sizes", start)
    /\ UNCHANGED << fs, entries, visited, appended, pc >>

NextAppend ==
    \/ \E c \in 1..(MaxNodes-1) : AppendCall(c)
    \/ UpdateSizesCall

SpecAppend == InitAppend /\ [][NextAppend]_vars

\* -------------------------------------------------------- Model.setData
\* The Tree find_files returned, handed to Model (line 506).
InitSel ==
    /\ fs \in FileSystems
    /\ heap = find_files(fs)
    /\ entries = { i \in 0..(fs.n-1) : fs.isdir[i] }
    /\ visited = entries
    /\ appended = {}
    /\ updates = 0
    /\ pc = "built"
    /\ last = NoCall

\* The indexes a caller can hold: Model.index (lines 75-96) makes one for every
\* entry below the root, never for the root; QModelIndex() is the invalid one.
Indexes == (DOMAIN heap \ {start}) \cup {InvalidIndex}
Columns == {0, 1}
States == {Unchecked, PartiallyChecked, Checked}

setData(index, column, value, role) ==
    /\ pc = "built"
    /\ heap' = setData_heap(heap, index, column, value, role)
    /\ last' = [ op |-> "setData", index |-> index, column |-> column, value |-> value,
                 role |-> role,
                 result |-> setData_result(index, column, value, role),
                 emitted |-> setData_emits(index, column, value, role),
                 again |-> /\ last.op = "setData" /\ last.index = index
                           /\ last.column = column /\ last.value = value
                           /\ last.role = role ]
    /\ UNCHANGED << fs, entries, visited, appended, updates, pc >>

NextSel ==
    \E index \in Indexes, column \in Columns, value \in States, role \in Roles :
        setData(index, column, value, role)

SpecSel == InitSel /\ [][NextSel]_vars

\* ------------------------------------------------ what the claims speak of
\* The entries below the directory at p, at any depth.
RECURSIVE Desc(_, _)
Desc(h, p) ==
    IF h[p].children = None THEN {}
    ELSE UNION { {Val(h[p].children)[i]} \cup Desc(h, Val(h[p].children)[i]) :
                 i \in 1..Len(Val(h[p].children)) }

DescFiles(h, p) == { x \in Desc(h, p) : IsFile(h, x) }

RECURSIVE SumSizes(_, _)
SumSizes(h, S) ==
    IF S = {} THEN 0
    ELSE LET x == CHOOSE y \in S : TRUE IN h[x].size + SumSizes(h, S \ {x})

\* The sizes of the files among the children of p, child by child.
RECURSIVE FileChildrenSize(_, _, _)
FileChildrenSize(h, p, i) ==
    IF i > Len(Val(h[p].children)) THEN 0
    ELSE (IF IsFile(h, Val(h[p].children)[i]) THEN h[Val(h[p].children)[i]].size ELSE 0)
         + FileChildrenSize(h, p, i + 1)

Dirs(h) == { p \in DOMAIN h : IsDir(h, p) }

\* The objects of the filesystem f below directory d, and the bytes stat reports.
RECURSIVE Below(_, _)
Below(f, d) ==
    UNION { {i} \cup Below(f, i) : i \in { j \in 1..(f.n-1) : f.parent[j] = d } }

RECURSIVE StatSum(_, _)
StatSum(f, S) ==
    IF S = {} THEN 0
    ELSE LET x == CHOOSE y \in S : TRUE
         IN (IF f.stat[x].ok THEN f.stat[x].st_size ELSE 0) + StatSum(f, S \ {x})

Occurrences(seq, x) == Cardinality({ i \in 1..Len(seq) : seq[i] = x })

\* The walk, in whatever order, builds the Tree that SpecSel starts from.
BuiltAsReturned == pc = "built" => heap = find_files(fs)

\* C1: once find_files has returned, every directory's full_size is the sum of
\* the sizes of the file entries below it at any depth, whatever the order in
\* which the walk yielded the directories.
C1_AggregateSize ==
    pc = "built" =>
        \A d \in Dirs(heap) : heap[d].full_size = Some(SumSizes(heap, DescFiles(heap, d)))

\* A built tree with a non-empty file three levels below the root.
C1_Witness ==
    /\ pc = "built"
    /\ \E x \in DOMAIN heap :
          /\ IsFile(heap, x) /\ heap[x].size > 0
          /\ heap[x].parent_dir # start
          /\ heap[heap[x].parent_dir].parent_dir # start
          /\ heap[start].full_size = Some(SumSizes(heap, DescFiles(heap, start)))

\* Every directory's size is the sum of the sizes of its immediate file children.
OwnSizes == \A d \in Dirs(heap) : heap[d].size = FileChildrenSize(heap, d, 1)

\* A step that appends a directory or runs update_sizes keeps every size field.
SizesKept ==
    (last'.op = "update_sizes" \/ (last'.op = "append" /\ IsDir(heap, last'.index))) =>
        \A p \in DOMAIN heap : heap'[p].size = heap[p].size

\* C2: after any sequence of Entry.append calls, and after update_sizes, every
\* directory's size is the sum of the sizes of its immediate file children;
\* neither appending a directory nor update_sizes changes a size field.
C2_OwnSize == []OwnSizes /\ [][SizesKept]_vars

\* A directory that already held a file was appended to a parent that holds a
\* file of its own, and update_sizes has run since (the root's full_size shows
\* both additions).
C2_Witness ==
    /\ pc = "assemble" /\ updates > 0 /\ last.op = "update_sizes"
    /\ \E d \in Dirs(heap) \ {start} :
          /\ heap[d].size > 0
          /\ Occurrences(Val(heap[heap[d].parent_dir].children), d) = 1
          /\ heap[heap[d].parent_dir].size > 0
          /\ Val(heap[start].full_size) > SumSizes(heap, DescFiles(heap, start))

\* C3: after setData checks or unchecks a directory, every entry below it has
\* the state just set.
C3_PropagatesDown ==
    (last.op = "setData" /\ last.emitted /\ last.value \in {Unchecked, Checked}
        /\ IsDir(heap, last.index)) =>
        \A x \in Desc(heap, last.index) :
            heap[x].selected = Some(last.value = Checked)

\* C4: after a setData call that checks or unchecks an entry, a directory that
\* has files below it is Included iff all of them are, Excluded iff all of them
\* are, and Mixed otherwise.
C4_DirectoryState ==
    (last.op = "setData" /\ last.value \in {Unchecked, Checked}) =>
        \A d \in Dirs(heap) :
            DescFiles(heap, d) # {} =>
                /\ heap[d].selected = Some(TRUE) <=>
                       \A x \in DescFiles(heap, d) : heap[x].selected = Some(TRUE)
                /\ heap[d].selected = Some(FALSE) <=>
                       \A x \in DescFiles(heap, d) : heap[x].selected = Some(FALSE)

\* C5: a file is never Mixed, and an entry is Mixed only if it is a directory
\* with two files below it whose states differ.
C5_MixedOnlyDirs ==
    \A p \in DOMAIN heap :
        /\ IsFile(heap, p) => heap[p].selected # None
        /\ heap[p].selected = None =>
              /\ IsDir(heap, p)
              /\ \E x, y \in DescFiles(heap, p) : heap[x].selected # heap[y].selected

\* What a child counts for in its directory's selected_size.
Contribution(h, c) ==
    IF h[c].selected = Some(FALSE) THEN 0
    ELSE IF h[c].selected = Some(TRUE)
         THEN (IF IsFile(h, c) THEN h[c].size ELSE Val(h[c].full_size))
         ELSE h[c].selected_size

RECURSIVE ChildrenContribution(_, _, _)
ChildrenContribution(h, p, i) ==
    IF i > Len(Val(h[p].children)) THEN 0
    ELSE Contribution(h, Val(h[p].children)[i]) + ChildrenContribution(h, p, i + 1)

\* C6: after a setData call that checks or unchecks an entry, every directory's
\* selected_size is the sum of what its not Excluded children count for (an
\* Included file its size, an Included directory its full_size), and the
\* 'Selected Size' column shows it.
C6_SelectedSize ==
    (last.op = "setData" /\ last.value \in {Unchecked, Checked}) =>
        \A d \in Dirs(heap) :
            /\ heap[d].selected_size = ChildrenContribution(heap, d, 1)
            /\ d # start => raw_data(heap, d, 3, FALSE) = Some(heap[d].selected_size)

\* C7: a setData call with the invalid index, or with a column other than 0,
\* returns False, changes no entry and emits no notification.
C7_Rejected ==
    [][ (last'.op = "setData" /\ (last'.index = InvalidIndex \/ last'.column # 0)) =>
            (last'.result = FALSE /\ heap' = heap /\ ~last'.emitted) ]_vars

\* C8: a listed file whose stat raises FileNotFoundError is an entry of size 0
\* among its parent's children, counts for nothing in any size or full_size,
\* and the tree is complete: every listed object has its entry, once, in its
\* parent, and the sizes are those of the files stat could read.
C8_NotFound ==
    pc = "built" =>
        /\ DOMAIN heap = 0..(fs.n-1)
        /\ \A i \in 1..(fs.n-1) :
              /\ IsDir(heap, i) = fs.isdir[i]
              /\ Occurrences(Val(heap[fs.parent[i]].children), i) = 1
              /\ (~fs.isdir[i] /\ ~fs.stat[i].ok) => heap[i].size = 0
              /\ (~fs.isdir[i] /\ fs.stat[i].ok) => heap[i].size = fs.stat[i].st_size
        /\ \A d \in Dirs(heap) :
              /\ heap[d].size = StatSum(fs, { i \in 1..(fs.n-1) : fs.parent[i] = d })
              /\ heap[d].full_size = Some(StatSum(fs, Below(fs, d)))

\* A built tree where a vanished file is listed before a file that is there.
C8_Witness ==
    /\ pc = "built"
    /\ \E m, g \in 1..(fs.n-1) :
          /\ ~fs.isdir[m] /\ ~fs.stat[m].ok
          /\ ~fs.isdir[g] /\ fs.stat[g].ok
          /\ fs.parent[g] = fs.parent[m] /\ m < g
          /\ heap[m].size = 0 /\ heap[g].size > 0

\* C9: a setData(p, s) call, s Checked or Unchecked, that repeats the call
\* before it leaves every entry as that call left it, and still emits.
C9_Idempotent ==
    [][ (last'.op = "setData" /\ last'.again /\ last'.value \in {Unchecked, Checked}
            /\ accepted(last'.index, last'.column, last'.role)) =>
            (heap' = heap /\ last'.emitted) ]_vars

\* The same accepted call was made twice in a row, on a directory with children.
C9_Witness ==
    /\ last.op = "setData" /\ last.again /\ last.emitted
    /\ last.value = Checked
    /\ accepted(last.index, last.column, last.role)
    /\ IsDir(heap, last.index) /\ Desc(heap, last.index) # {}
    /\ heap[last.index].selected = Some(TRUE)

\* C10: a tree assembled by Entry.append in any order and finalised by one
\* update_sizes(root) has every directory's full_size equal to the sum of the
\* sizes of the files below it.
C10_ExactlyOnce ==
    (pc = "assemble" /\ appended = 1..(fs.n-1) /\ updates = 1 /\ last.op = "update_sizes") =>
        \A d \in Dirs(heap) : heap[d].full_size = Some(SumSizes(heap, DescFiles(heap, d)))

====
